---------------------------- MODULE Spec2Model ----------------------------
(***************************************************************************)
(* A model of pybotz.py: the polling schedule of a SensorChecker, the      *)
(* sweep of a SensorModuleChecker and the sweep of a CheckerPool.          *)
(*                                                                         *)
(* Time is an integer clock.  Every datetime.now() of the source reads the *)
(* variable now (or, inside check(), the time the fetch ended).            *)
(* datetime.now() is naive local wall-clock time: it may stay the same     *)
(* between two reads and it may be set back, so the clock has a Tick and a *)
(* ClockStepBack action.                                                   *)
(*                                                                         *)
(* Numbers carried by readings are held in tenths (100 is 1000, 49.9 is    *)
(* 499), so that the values of the source are integers here.  A raw        *)
(* _sensor_value is [t, s, n]: t is the Python type ("str", "int",         *)
(* "float"), s the text of a str, n the number in tenths.                  *)
(*                                                                         *)
(* Attributes that no decision of the source reads (a reading's ts, its    *)
(* condition and its display prefix, the module's url) are left out.       *)
(* _html and _html_ts are written by every _retrieve_HTML before they are  *)
(* read, so they are results of retrieve_HTML, not state.                  *)
(***************************************************************************)
EXTENDS Integers, Sequences, FiniteSets, TLC

VARIABLES
  now,     \* the wall clock, what datetime.now() returns
  smc,     \* CheckerPool._SMC: the sequence of SensorModuleChecker states
  ret,     \* the list the last check() returned (<<>> when it raised)
  exc,     \* the exception the last check() raised, "none" when it returned
  last,    \* the last operation: [op, fetch], fetch[m] the outcome of the
           \* fetch of each module m whose check() it called
  sweeps   \* how many check() calls each module has served

vars == <<now, smc, ret, exc, last, sweeps>>

----------------------------------------------------------------------------
(* Bounds of the model.                                                    *)

StartTime == 1
MaxTime == 5
MaxDur == 1
MaxSweeps == 2

(* One tick of the clock is 300 seconds: config['default_interval'] is 600 *)
(* seconds and config['self_report_interval'] 900 seconds.                 *)
default_interval == 2
self_report_interval == 3

----------------------------------------------------------------------------
(* Values.                                                                 *)

Str(s) == [t |-> "str", s |-> s, n |-> 0]
IntV(n) == [t |-> "int", s |-> "", n |-> n]
FloatV(n) == [t |-> "float", s |-> "", n |-> n]

(* Texts int() accepts, texts only float() accepts, and their numbers in   *)
(* tenths.                                                                 *)
IntTexts == {"100", "151", "149", "50", "1"}
FloatTexts == {"49.9"}
Tenths ==
  [s \in IntTexts \cup FloatTexts |->
     CASE s = "100" -> 1000
       [] s = "151" -> 1510
       [] s = "149" -> 1490
       [] s = "50" -> 500
       [] s = "1" -> 10
       [] s = "49.9" -> 499]

(* The text of a sensor row's value cell.  No text here carries a unit or  *)
(* a space, so the regular expressions of load_from_HTML leave it as is.   *)
CellTexts == {"100", "151", "N/A", "1", "Open"}
CandidateTexts == CellTexts \cup {"149", "50", "49.9", "Closed"}

(* The texts the page shows for the sensor with a given key.               *)
CellTextsOf(name) ==
  CASE name = "Dew_Point" -> {"100", "49.9", "N/A"}
    [] name = "Humidity" -> {"100", "151"}
    [] name = "Door_Switch" -> {"Open", "N/A"}
    [] OTHER -> CellTexts
Malformed == "<malformed row>"

(* NBSensorReading.load_from_HTML: "Closed" and "No_Motion" become the int *)
(* 0, "Open" and "Motion_Detected" the int 1, any other text stays a str.  *)
load_from_HTML(key, text) ==
  [key |-> key,
   raw |-> IF text \in {"Closed", "No_Motion"} THEN IntV(0)
           ELSE IF text \in {"Open", "Motion_Detected"} THEN IntV(10)
           ELSE Str(text)]

(* SensorReading.set: the key and the value as given.                      *)
set(key, rawvalue) == [key |-> key, raw |-> rawvalue]

(* None, where the source holds None in place of a reading.                *)
None == [key |-> "None", raw |-> Str("None")]

(* SensorReading.value(): a float stays; anything else goes through int(), *)
(* then float(), and stays as it is when both refuse it.  The conversion   *)
(* runs again on every call.                                               *)
value(r) ==
  IF r.raw.t = "float" THEN r.raw
  ELSE IF r.raw.t = "int" THEN IntV(r.raw.n)
  ELSE IF r.raw.s \in IntTexts THEN IntV(Tenths[r.raw.s])
  ELSE IF r.raw.s \in FloatTexts THEN FloatV(Tenths[r.raw.s])
  ELSE r.raw

IsNumber(v) == v.t \in {"int", "float"}

(* Python's != on two values: numbers compare by number whatever their     *)
(* type (1 == 1.0), strings by text, a number never equals a string.       *)
PyNotEqual(a, b) ==
  IF IsNumber(a) /\ IsNumber(b) THEN a.n # b.n
  ELSE IF a.t = "str" /\ b.t = "str" THEN a.s # b.s
  ELSE TRUE

(* re.match(r"N\/A", str(v)): the text starts with N/A.                    *)
MatchesNA(v) == v.t = "str" /\ v.s \in {"N/A"}

(* Alert thresholds: the database's DECIMAL column gives a Decimal, the    *)
(* default config['default_threshold'] is the float 0.50.                  *)
Threshold(kind, num, den) == [kind |-> kind, num |-> num, den |-> den]
default_threshold == Threshold("float", 1, 2)
Thresholds == {Threshold("Decimal", 0, 1), default_threshold}
(* The column alert_threshold is DECIMAL(3): a non-zero value read from it *)
(* is a whole number, 1 being 100%.                                        *)
DecimalThresholds == {Threshold("Decimal", 1, 1)}
PollIntervals == {0, default_interval}


----------------------------------------------------------------------------
(* SensorChecker.  A sensor is                                             *)
(*   [name, poll_interval, alert_threshold, next_check_time,               *)
(*    current_reading, previous_reading, ctime, nupd, alerted]             *)
(* where ctime (the datetime.now() of __init__), nupd (the number of       *)
(* update() calls so far) and alerted (the last alert for the sensor that  *)
(* a caller was returned) are history the source does not keep.            *)

(* SensorChecker.__init__ at time t with the configuration row (interval,  *)
(* threshold); a NULL column has been replaced by its default.             *)
SensorChecker(name, interval, threshold, t) ==
  [name |-> name,
   poll_interval |-> interval,
   alert_threshold |-> threshold,
   next_check_time |-> t,
   current_reading |-> None,
   previous_reading |-> None,
   ctime |-> t,
   nupd |-> 0,
   alerted |-> None]

(* self._poll_interval == 0 compares a timedelta with an int: timedelta's  *)
(* == answers False for every operand that is not a timedelta.             *)
TimedeltaEqualsInt(td, i) == FALSE

(* needs_check() due from the next check time on, not only after it.       *)
needs_check_at_or_after(s, t) ==
  IF TimedeltaEqualsInt(s.poll_interval, 0) \/ t >= s.next_check_time
    THEN "True"
    ELSE "None"

(* SensorChecker.needs_check() read at time t: True, or None (falls off    *)
(* the end).                                                               *)
needs_check(s, t) ==
  IF TimedeltaEqualsInt(s.poll_interval, 0) \/ t > s.next_check_time
    THEN "True"
    ELSE "None"

(* The comparison with the boundaries counted as outside.                  *)
OutsideBand_inclusive(nv, cv, thr) ==
  \/ nv.n * thr.den >= cv.n * (thr.den + thr.num)
  \/ nv.n * thr.den =< cv.n * (thr.den - thr.num)

(* The comparison of exceeds_threshold with both values numbers:           *)
(* new > cur + cur * thr  or  new < cur - cur * thr, in exact arithmetic.  *)
OutsideBand(nv, cv, thr) ==
  \/ nv.n * thr.den > cv.n * (thr.den + thr.num)
  \/ nv.n * thr.den < cv.n * (thr.den - thr.num)

(* The tail of exceeds_threshold, once the special cases are past.         *)
threshold_math(thr, nv, cv) ==
  IF cv.t = "str" THEN "TypeError"
  ELSE IF cv.t = "float" /\ thr.kind = "Decimal" THEN "TypeError"
  ELSE IF nv.t = "str" THEN "True"
  ELSE IF OutsideBand(nv, cv, thr) THEN "True"
  ELSE "None"

(* exceeds_threshold() with the first-pass case tested before the zero     *)
(* threshold.                                                              *)
exceeds_threshold_first_pass_first(s, new_reading) ==
  LET thr == s.alert_threshold
  IN IF s.current_reading = None THEN "True"
     ELSE IF thr.num = 0 THEN "False"
     ELSE IF MatchesNA(value(new_reading)) THEN "False"
     ELSE threshold_math(thr, value(new_reading), value(s.current_reading))

(* exceeds_threshold(new_reading) gets past its three special cases and   *)
(* evaluates the comparison.                                               *)
ReachesComparison(s, new_reading) ==
  /\ s.alert_threshold.num # 0
  /\ s.current_reading # None
  /\ ~MatchesNA(value(new_reading))

(* exceeds_threshold() without the zero-threshold case.                    *)
exceeds_threshold_no_zero_case(s, new_reading) ==
  LET thr == s.alert_threshold
  IN IF s.current_reading = None THEN "True"
     ELSE IF MatchesNA(value(new_reading)) THEN "False"
     ELSE threshold_math(thr, value(new_reading), value(s.current_reading))

(* exceeds_threshold() without the N/A case.                               *)
exceeds_threshold_no_na_case(s, new_reading) ==
  LET thr == s.alert_threshold
  IN IF thr.num = 0 THEN "False"
     ELSE IF s.current_reading = None THEN "True"
     ELSE threshold_math(thr, value(new_reading), value(s.current_reading))

(* SensorChecker.exceeds_threshold(new_reading): "True", "False", "None"   *)
(* (falls off the end) or "TypeError" (the arithmetic raises: a str        *)
(* current value times the threshold, or a float times a Decimal).  A str  *)
(* compares greater than every number in Python 2.                         *)
exceeds_threshold(s, new_reading) ==
  LET thr == s.alert_threshold
      nv == value(new_reading)
      cv == value(s.current_reading)
  IN IF thr.num = 0 THEN "False"
     ELSE IF s.current_reading = None THEN "True"
     ELSE IF MatchesNA(nv) THEN "False"
     ELSE threshold_math(thr, nv, cv)

(* update() with the next check time taken from a clock reading of the     *)
(* construction time instead of from its prior value.                      *)
update_from_ctime(s, new_reading) ==
  [s EXCEPT !.previous_reading = s.current_reading,
            !.current_reading = new_reading,
            !.next_check_time = s.ctime + s.poll_interval,
            !.nupd = s.nupd + 1]

(* SensorChecker.update(new_reading).                                      *)
update(s, new_reading) ==
  [s EXCEPT !.previous_reading = s.current_reading,
            !.current_reading = new_reading,
            !.next_check_time = s.next_check_time + s.poll_interval,
            !.nupd = s.nupd + 1]

(* get_data_update() comparing the stored values, not what value() makes   *)
(* of them.                                                                *)
get_data_update_compares_stored(s) ==
  IF \/ s.previous_reading = None
     \/ s.current_reading.raw # s.previous_reading.raw
    THEN s.current_reading
    ELSE None

(* SensorChecker.get_data_update(): the current reading, or None.          *)
get_data_update(s) ==
  IF \/ s.previous_reading = None
     \/ PyNotEqual(value(s.current_reading), value(s.previous_reading))
    THEN s.current_reading
    ELSE None

----------------------------------------------------------------------------
(* SensorModuleChecker.  A module is                                       *)
(*   [display_name, sensors, avg_poll_time, poll_failure_count,            *)
(*    poll_success_count, next_self_report, durs]                          *)
(* with avg_poll_time <<>> for None and <<d>> for a timedelta of d ticks.  *)
(* durs, the durations of the poll runs recorded since the counters were   *)
(* last reset, is history the source does not keep.                        *)

(* _init_selfrpt_interval() that leaves the average as it is.              *)
init_selfrpt_interval_keeps_average(m, t) ==
  [m EXCEPT !.poll_failure_count = 0,
            !.poll_success_count = 0,
            !.next_self_report = t + self_report_interval,
            !.durs = <<>>]

(* SensorModuleChecker._init_selfrpt_interval() at time t.                 *)
init_selfrpt_interval(m, t) ==
  [m EXCEPT !.avg_poll_time = <<>>,
            !.poll_failure_count = 0,
            !.poll_success_count = 0,
            !.next_self_report = t + self_report_interval,
            !.durs = <<>>]

(* SensorModuleChecker.__init__ at time t: the sensors of the module's     *)
(* configuration rows, in the order the query returned them.               *)
SensorModuleChecker(display_name, rows, t) ==
  init_selfrpt_interval(
    [display_name |-> display_name,
     sensors |-> [i \in 1..Len(rows) |->
                    SensorChecker(rows[i].name, rows[i].interval,
                                  rows[i].threshold, t)],
     avg_poll_time |-> <<>>,
     poll_failure_count |-> 0,
     poll_success_count |-> 0,
     next_self_report |-> 0,
     durs |-> <<>>], t)

(* _record_poll_run() keeping the arithmetic mean of the durations.        *)
record_poll_run_arithmetic_mean(m, start, end) ==
  LET n == m.poll_success_count + 1 IN
  [m EXCEPT !.poll_success_count = n,
            !.avg_poll_time =
               IF m.avg_poll_time = <<>>
                 THEN <<end - start>>
                 ELSE <<(m.avg_poll_time[1] * (n - 1) + (end - start)) \div n>>,
            !.durs = Append(m.durs, end - start)]

(* SensorModuleChecker._record_poll_run(start, end).  timedelta / int      *)
(* floors to the resolution of timedelta, here the tick.                   *)
record_poll_run(m, start, end) ==
  LET n == m.poll_success_count + 1 IN
  [m EXCEPT !.poll_success_count = n,
            !.avg_poll_time =
               IF m.avg_poll_time = <<>>
                 THEN <<end - start>>
                 ELSE <<(m.avg_poll_time[1] + (end - start)) \div n>>,
            !.durs = Append(m.durs, end - start)]

(* What the network gives one check(): the outcome of the fetch, how long  *)
(* it took, and the page.  A page has the two tables or not, and a value   *)
(* cell (or a malformed row) for some of the sensor names.                 *)
NoPage == [tables |-> FALSE, rows |-> <<>>]

(* _retrieve_HTML() that records the poll run of a failed fetch too.       *)
retrieve_HTML_records_failure(m, inp, start) ==
  IF inp.fetch = "URLError" \/ inp.fetch = "IOError"
    THEN [smc |-> record_poll_run([m EXCEPT !.poll_failure_count = @ + 1],
                                  start, start + inp.dur),
          html |-> None,
          html_ts |-> start + inp.dur]
    ELSE [smc |-> record_poll_run(m, start, start + inp.dur),
          html |-> inp.page,
          html_ts |-> start + inp.dur]

(* SensorModuleChecker._retrieve_HTML() started at time start:             *)
(* [smc, html, html_ts], html = None on a failure.                         *)
retrieve_HTML(m, inp, start) ==
  IF inp.fetch = "URLError" \/ inp.fetch = "IOError"
    THEN [smc |-> [m EXCEPT !.poll_failure_count = @ + 1],
          html |-> None,
          html_ts |-> start + inp.dur]
    ELSE [smc |-> record_poll_run(m, start, start + inp.dur),
          html |-> inp.page,
          html_ts |-> start + inp.dur]

(* SensorModuleChecker.avg_poll_time(): the average as a float.            *)
avg_poll_time(m) == FloatV(m.avg_poll_time[1] * 10)

(* _self_report() that does not start a new self-report interval.          *)
self_report_without_reset(m, t) ==
  LET total == m.poll_success_count + m.poll_failure_count
      failure_rate ==
        IF total > 0
          THEN <<set("poll_failure_rate",
                     FloatV((m.poll_failure_count \div total) * 10))>>
          ELSE <<>>
      avg_poll ==
        IF m.poll_success_count > 0
          THEN <<set("avg_html_retrieval", avg_poll_time(m))>>
          ELSE <<>>
  IN [smc |-> m, r |-> failure_rate \o avg_poll]

(* SensorModuleChecker._self_report() at time t: [smc, r].  The failure    *)
(* rate is float(failures / total) with both ints: the division floors.    *)
self_report(m, t) ==
  LET total == m.poll_success_count + m.poll_failure_count
      failure_rate ==
        IF total > 0
          THEN <<set("poll_failure_rate",
                     FloatV((m.poll_failure_count \div total) * 10))>>
          ELSE <<>>
      avg_poll ==
        IF m.poll_success_count > 0
          THEN <<set("avg_html_retrieval", avg_poll_time(m))>>
          ELSE <<>>
  IN [smc |-> init_selfrpt_interval(m, t), r |-> failure_rate \o avg_poll]


(* The first loop of check(): the readings of the page by key.  A row      *)
(* whose load_from_HTML raises AttributeError is skipped.                  *)
sensorReadings(html) ==
  [k \in {x \in DOMAIN html.rows : html.rows[x] # Malformed} |->
     load_from_HTML(k, html.rows[k])]

(* The second loop of check() updating every sensor the page has a         *)
(* reading for, due and over threshold or not.                             *)
RECURSIVE sensor_loop_updates_all(_, _, _, _, _)
sensor_loop_updates_all(sensors, readings, t, i, new_alerts) ==
  IF i > Len(sensors)
    THEN [sensors |-> sensors, new_alerts |-> new_alerts, exc |-> "none"]
  ELSE LET s == sensors[i] IN
    IF s.name \notin DOMAIN readings
      THEN sensor_loop_updates_all(sensors, readings, t, i + 1, new_alerts)
    ELSE LET r == readings[s.name]
             s2 == update(s, r)
             sr == get_data_update(s2)
         IN sensor_loop_updates_all([sensors EXCEPT ![i] = s2], readings, t,
                                    i + 1,
                                    IF sr # None THEN Append(new_alerts, sr)
                                                 ELSE new_alerts)

(* The second loop of check() from sensor i on, read at time t:            *)
(* [sensors, new_alerts, exc].  An exception of exceeds_threshold leaves   *)
(* the loop, and check(), at that sensor.                                  *)
RECURSIVE sensor_loop(_, _, _, _, _)
sensor_loop(sensors, readings, t, i, new_alerts) ==
  IF i > Len(sensors)
    THEN [sensors |-> sensors, new_alerts |-> new_alerts, exc |-> "none"]
  ELSE LET s == sensors[i] IN
    IF s.name \notin DOMAIN readings
      THEN sensor_loop(sensors, readings, t, i + 1, new_alerts)
    ELSE LET r == readings[s.name]
             worthy == IF needs_check(s, t) = "True"
                         THEN "True"
                         ELSE exceeds_threshold(s, r)
         IN IF worthy = "TypeError"
              THEN [sensors |-> sensors, new_alerts |-> new_alerts,
                    exc |-> "TypeError"]
            ELSE IF worthy = "True"
              THEN LET s2 == update(s, r)
                       sr == get_data_update(s2)
                   IN sensor_loop([sensors EXCEPT ![i] = s2], readings, t,
                                  i + 1,
                                  IF sr # None THEN Append(new_alerts, sr)
                                               ELSE new_alerts)
            ELSE sensor_loop(sensors, readings, t, i + 1, new_alerts)

(* check() from the parse on that puts the self-report readings first.     *)
check_page_self_report_first(r) ==
  IF ~r.html.tables
    THEN [smc |-> r.smc, out |-> <<>>, exc |-> "IndexError", t |-> r.html_ts]
  ELSE LET loop == sensor_loop(r.smc.sensors, sensorReadings(r.html),
                               r.html_ts, 1, <<>>)
           m2 == [r.smc EXCEPT !.sensors = loop.sensors]
       IN IF loop.exc # "none"
            THEN [smc |-> m2, out |-> <<>>, exc |-> loop.exc, t |-> r.html_ts]
          ELSE IF r.html_ts > m2.next_self_report
            THEN LET sr == self_report(m2, r.html_ts)
                 IN [smc |-> sr.smc, out |-> sr.r \o loop.new_alerts,
                     exc |-> "none", t |-> r.html_ts]
          ELSE [smc |-> m2, out |-> loop.new_alerts, exc |-> "none",
                t |-> r.html_ts]

(* check() from the parse of the page on, given what _retrieve_HTML left:  *)
(* [smc, out, exc, t].  A page without its tables raises at the parse,     *)
(* after the poll run was recorded.                                        *)
check_page(r) ==
  IF ~r.html.tables
    THEN [smc |-> r.smc, out |-> <<>>, exc |-> "IndexError", t |-> r.html_ts]
  ELSE LET loop == sensor_loop(r.smc.sensors, sensorReadings(r.html),
                               r.html_ts, 1, <<>>)
           m2 == [r.smc EXCEPT !.sensors = loop.sensors]
       IN IF loop.exc # "none"
            THEN [smc |-> m2, out |-> <<>>, exc |-> loop.exc, t |-> r.html_ts]
          ELSE IF r.html_ts > m2.next_self_report
            THEN LET sr == self_report(m2, r.html_ts)
                 IN [smc |-> sr.smc, out |-> loop.new_alerts \o sr.r,
                     exc |-> "none", t |-> r.html_ts]
          ELSE [smc |-> m2, out |-> loop.new_alerts, exc |-> "none",
                t |-> r.html_ts]

(* check() that goes on to the self-report step after a failed fetch.      *)
check_self_report_after_failure(m, inp, start) ==
  LET r == retrieve_HTML(m, inp, start) IN
  IF r.html = None
    THEN IF r.html_ts > r.smc.next_self_report
           THEN LET sr == self_report(r.smc, r.html_ts)
                IN [smc |-> sr.smc, out |-> sr.r, exc |-> "none",
                    t |-> r.html_ts]
           ELSE [smc |-> r.smc, out |-> <<>>, exc |-> "none",
                 t |-> r.html_ts]
    ELSE check_page(r)

(* SensorModuleChecker.check() started at time start with the network      *)
(* giving inp: [smc, out, exc, t], t the time it ended.                    *)
check(m, inp, start) ==
  LET r == retrieve_HTML(m, inp, start) IN
  IF r.html = None
    THEN [smc |-> r.smc, out |-> <<>>, exc |-> "none", t |-> r.html_ts]
    ELSE check_page(r)

----------------------------------------------------------------------------
(* CheckerPool.                                                            *)

(* CheckerPool.check() from module i on, started at time t, inps[i] what   *)
(* the network gives module i: [pool, new_alerts, exc, t, done].  An       *)
(* exception of a module's check() leaves the loop: the modules after it   *)
(* are not checked and the alerts collected so far are lost.  done is the  *)
(* set of modules whose check() was called.                                *)
RECURSIVE pool_check(_, _, _, _, _, _)
pool_check(pool, inps, t, i, new_alerts, done) ==
  IF i > Len(pool)
    THEN [pool |-> pool, new_alerts |-> new_alerts, exc |-> "none", t |-> t,
          done |-> done]
  ELSE LET c == check(pool[i], inps[i], t) IN
    IF c.exc # "none"
      THEN [pool |-> [pool EXCEPT ![i] = c.smc], new_alerts |-> <<>>,
            exc |-> c.exc, t |-> c.t, done |-> done \cup {i}]
      ELSE pool_check([pool EXCEPT ![i] = c.smc], inps, c.t, i + 1,
                      new_alerts \o c.out, done \cup {i})

----------------------------------------------------------------------------
(* The inputs of one check() of module m: a failed fetch, or a page.       *)

SensorNames(m) == {m.sensors[i].name : i \in 1..Len(m.sensors)}

Pages(m) ==
  {NoPage} \cup
  {[tables |-> TRUE, rows |-> rows] :
     rows \in UNION {{f \in [K -> CandidateTexts \cup {Malformed}] :
                        \A k \in K : f[k] \in CellTextsOf(k) \cup {Malformed}} :
                       K \in SUBSET SensorNames(m)}}

Inputs(m) ==
  {[fetch |-> f, dur |-> d, page |-> NoPage] :
     f \in {"URLError", "IOError"}, d \in 0..MaxDur}
  \cup {[fetch |-> "ok", dur |-> d, page |-> p] :
          d \in 0..MaxDur, p \in Pages(m)}

Modules == 1..Len(smc)

----------------------------------------------------------------------------
(* The configuration the pool is built from: per module the rows of its    *)
(* sensors.                                                                *)
SensorRows(name) ==
  {[name |-> name, interval |-> i, threshold |-> th] :
     i \in PollIntervals, th \in Thresholds}

(* One module with one sensor, in every configuration.                     *)
Init ==
  /\ now = StartTime
  /\ \E row \in SensorRows("Temperature") :
       smc = <<SensorModuleChecker("pod1", <<row>>, now)>>
  /\ ret = <<>>
  /\ exc = "none"
  /\ last = [op |-> "init", fetch |-> <<>>]
  /\ sweeps = [i \in {1} |-> 0]

(* The clock advances.                                                     *)
Tick ==
  /\ now < MaxTime
  /\ now' = now + 1
  /\ last' = [op |-> "clock", fetch |-> <<>>]
  /\ UNCHANGED <<smc, ret, exc, sweeps>>

(* The local clock is set back, one tick at a time.                        *)
ClockStepBack ==
  /\ now > 0
  /\ now' = now - 1
  /\ last' = [op |-> "clock", fetch |-> <<>>]
  /\ UNCHANGED <<smc, ret, exc, sweeps>>

(* The module m once its caller holds the readings out: the alerts in out  *)
(* are the last ones returned for their sensors.  Sensor names are unique  *)
(* in the pool.                                                            *)
Returned(m, out) ==
  [m EXCEPT !.sensors =
     [i \in 1..Len(m.sensors) |->
        LET mine == SelectSeq(out, LAMBDA r : r.key = m.sensors[i].name)
        IN IF mine = <<>> THEN m.sensors[i]
           ELSE [m.sensors[i] EXCEPT !.alerted = mine[Len(mine)]]]]

(* check() of module m with the next self-report time kept in one place   *)
(* for all modules.                                                        *)
Check_shared_self_report(m) ==
  /\ sweeps[m] < MaxSweeps
  /\ \E inp \in Inputs(smc[m]) :
       /\ now + inp.dur <= MaxTime
       /\ \E c \in {check(smc[m], inp, now)} :
            /\ smc' = [k \in Modules |->
                         IF k = m THEN Returned(c.smc, c.out)
                         ELSE [smc[k] EXCEPT !.next_self_report =
                                               c.smc.next_self_report]]
            /\ ret' = c.out
            /\ exc' = c.exc
            /\ now' = c.t
            /\ last' = [op |-> "check", fetch |-> [x \in {m} |-> inp.fetch]]
  /\ sweeps' = [sweeps EXCEPT ![m] = @ + 1]

(* A caller runs SensorModuleChecker.check() of module m.                  *)
Check(m) ==
  /\ sweeps[m] < MaxSweeps
  /\ \E inp \in Inputs(smc[m]) :
       /\ now + inp.dur <= MaxTime
       /\ \E c \in {check(smc[m], inp, now)} :
            /\ smc' = [smc EXCEPT ![m] = Returned(c.smc, c.out)]
            /\ ret' = c.out
            /\ exc' = c.exc
            /\ now' = c.t
            /\ last' = [op |-> "check", fetch |-> [x \in {m} |-> inp.fetch]]
  /\ sweeps' = [sweeps EXCEPT ![m] = @ + 1]

(* A caller runs CheckerPool.check(): one sweep.                           *)
PoolCheck ==
  /\ \A m \in Modules : sweeps[m] < MaxSweeps
  /\ \E inps \in [Modules -> UNION {Inputs(smc[m]) : m \in Modules}] :
       /\ \A m \in Modules : inps[m] \in Inputs(smc[m])
       /\ \E c \in {pool_check(smc, inps, now, 1, <<>>, {})} :
            /\ c.t <= MaxTime
            /\ smc' = [m \in Modules |-> Returned(c.pool[m], c.new_alerts)]
            /\ ret' = c.new_alerts
            /\ exc' = c.exc
            /\ now' = c.t
            /\ last' = [op |-> "pool",
                        fetch |-> [x \in c.done |-> inps[x].fetch]]
            /\ sweeps' = [m \in Modules |->
                            IF m \in c.done THEN sweeps[m] + 1 ELSE sweeps[m]]

Next ==
  \/ Tick
  \/ ClockStepBack
  \/ \E m \in Modules : Check(m)
  \/ PoolCheck

Spec == Init /\ [][Next]_vars


----------------------------------------------------------------------------
(* The poll statistics alone: a module without sensors whose               *)
(* _retrieve_HTML() is run MaxPolls times, each run failing or taking one  *)
(* of PollDurations units of the resolution of timedelta.                  *)

MaxPolls == 3
PollDurations == {10, 20, 30}

InitAvg ==
  /\ now = StartTime
  /\ smc = <<SensorModuleChecker("pod1", <<>>, now)>>
  /\ ret = <<>>
  /\ exc = "none"
  /\ last = [op |-> "init", fetch |-> <<>>]
  /\ sweeps = [i \in {1} |-> 0]

(* SensorModuleChecker._retrieve_HTML() of module m.                       *)
RetrieveHTML(m) ==
  /\ sweeps[m] < MaxPolls
  /\ \E f \in {"ok", "URLError", "IOError"}, d \in PollDurations :
       \E r \in {retrieve_HTML(smc[m],
                               [fetch |-> f, dur |-> d, page |-> NoPage],
                               now)} :
         /\ smc' = [smc EXCEPT ![m] = r.smc]
         /\ now' = r.html_ts
         /\ last' = [op |-> "retrieve", fetch |-> [x \in {m} |-> f]]
  /\ sweeps' = [sweeps EXCEPT ![m] = @ + 1]
  /\ UNCHANGED <<ret, exc>>

NextAvg == \E m \in Modules : RetrieveHTML(m)

SpecAvg == InitAvg /\ [][NextAvg]_vars

----------------------------------------------------------------------------
(* One module with one sensor whose page texts include a float, with the   *)
(* default threshold or a non-zero threshold from the database.            *)
InitThr ==
  /\ now = StartTime
  /\ \E i \in PollIntervals,
        th \in DecimalThresholds \cup {default_threshold} :
       smc = <<SensorModuleChecker("pod1",
                 <<[name |-> "Dew_Point", interval |-> i, threshold |-> th]>>,
                 now)>>
  /\ ret = <<>>
  /\ exc = "none"
  /\ last = [op |-> "init", fetch |-> <<>>]
  /\ sweeps = [i \in {1} |-> 0]

SpecThr == InitThr /\ [][Next]_vars

----------------------------------------------------------------------------
(* One module with two sensors, the second in every configuration.         *)
InitTwo ==
  /\ now = StartTime
  /\ \E row \in SensorRows("Door_Switch") :
       smc = <<SensorModuleChecker("pod1",
                 <<[name |-> "Humidity", interval |-> default_interval,
                    threshold |-> default_threshold], row>>,
                 now)>>
  /\ ret = <<>>
  /\ exc = "none"
  /\ last = [op |-> "init", fetch |-> <<>>]
  /\ sweeps = [i \in {1} |-> 0]

(* The module is checked on its own, by a clock that only advances.        *)
NextTwo ==
  \/ Tick
  \/ \E m \in Modules : Check(m)

SpecTwo == InitTwo /\ [][NextTwo]_vars

----------------------------------------------------------------------------
(* A pool of two modules with one sensor each.                             *)
InitPool ==
  /\ now = StartTime
  /\ smc = <<SensorModuleChecker("pod1",
               <<[name |-> "Humidity", interval |-> default_interval,
                  threshold |-> default_threshold]>>, now),
             SensorModuleChecker("pod2",
               <<[name |-> "Door_Switch", interval |-> default_interval,
                  threshold |-> default_threshold]>>, now)>>
  /\ ret = <<>>
  /\ exc = "none"
  /\ last = [op |-> "init", fetch |-> <<>>]
  /\ sweeps = [i \in {1, 2} |-> 0]

(* The pool is swept, or one of its modules is checked on its own, by a    *)
(* clock that only advances.                                               *)
NextPool ==
  \/ Tick
  \/ \E m \in Modules : Check(m)
  \/ PoolCheck

SpecPool == InitPool /\ [][NextPool]_vars

(* The modules of the pool are checked one at a time, in any order.        *)
NextModules ==
  \/ Tick
  \/ \E m \in Modules : Check(m)

SpecModules == InitPool /\ [][NextModules]_vars

----------------------------------------------------------------------------
(* One module with two sensors after its first check(), made at StartTime  *)
(* with any input.                                                         *)
InitSwept ==
  \E i \in PollIntervals :
    \E m0 \in {SensorModuleChecker("pod1",
                 <<[name |-> "Humidity", interval |-> i,
                    threshold |-> default_threshold],
                   [name |-> "Door_Switch", interval |-> default_interval,
                    threshold |-> default_threshold]>>,
                 StartTime)} :
      \E inp \in Inputs(m0) :
        \E c \in {check(m0, inp, StartTime)} :
          /\ now = c.t
          /\ smc = <<Returned(c.smc, c.out)>>
          /\ ret = c.out
          /\ exc = c.exc
          /\ last = [op |-> "check", fetch |-> [x \in {1} |-> inp.fetch]]
          /\ sweeps = [x \in {1} |-> 0]

SpecSwept == InitSwept /\ [][NextTwo]_vars

----------------------------------------------------------------------------
(* The module with two sensors after its first check(), polled from then   *)
(* on by fetches that all succeed and all show the same text for its       *)
(* first sensor, while the clock advances.                                 *)
SteadyKey == "Humidity"
SteadyText == "151"

(* check() of module m with a fetch that succeeds and shows SteadyText.    *)
Poll(m) ==
  /\ sweeps[m] < MaxSweeps
  /\ \E inp \in Inputs(smc[m]) :
       /\ inp.fetch = "ok"
       /\ inp.page.tables
       /\ SteadyKey \in DOMAIN inp.page.rows
       /\ inp.page.rows[SteadyKey] = SteadyText
       /\ now + inp.dur <= MaxTime
       /\ \E c \in {check(smc[m], inp, now)} :
            /\ smc' = [smc EXCEPT ![m] = Returned(c.smc, c.out)]
            /\ ret' = c.out
            /\ exc' = c.exc
            /\ now' = c.t
            /\ last' = [op |-> "check", fetch |-> [x \in {m} |-> inp.fetch]]
  /\ sweeps' = [sweeps EXCEPT ![m] = @ + 1]

NextSteady ==
  \/ Tick
  \/ \E m \in Modules : Poll(m)

(* The caller keeps polling and the clock keeps advancing.                 *)
SpecSteady ==
  /\ InitSwept
  /\ [][NextSteady]_vars
  /\ WF_vars(Tick)
  /\ WF_vars(\E m \in Modules : Poll(m))

----------------------------------------------------------------------------
(* Vocabulary of the properties.                                           *)

Failures == {"URLError", "IOError"}

(* The last operation called check() of module m and of no other module,   *)
(* so that now is the time that check() ended.                             *)
CheckedAlone(m) == DOMAIN last.fetch = {m}

(* ... and its fetch failed.                                               *)
FetchFailed(m) == CheckedAlone(m) /\ last.fetch[m] \in Failures

Sensors(m) == 1..Len(smc[m].sensors)

----------------------------------------------------------------------------
(* C1: a check() whose fetch fails (connect error or read timeout) returns *)
(* no alert, adds exactly 1 to the failure counter, leaves the success     *)
(* counter and the running average alone, and leaves every sensor of the   *)
(* module (current reading, previous reading, next check time) as it was.  *)
C1_FailedFetchFrame ==
  [][\A m \in Modules :
       FetchFailed(m)' =>
         /\ ret' = <<>>
         /\ exc' = "none"
         /\ smc'[m].poll_failure_count = smc[m].poll_failure_count + 1
         /\ smc'[m].poll_success_count = smc[m].poll_success_count
         /\ smc'[m].avg_poll_time = smc[m].avg_poll_time
         /\ smc'[m].sensors = smc[m].sensors]_vars

(* A failed fetch after a successful one that gave the sensor a reading.   *)
C1_Witness ==
  \E m \in Modules :
    /\ FetchFailed(m)
    /\ ret = <<>>
    /\ smc[m].poll_failure_count = 1
    /\ smc[m].poll_success_count = 1
    /\ \E i \in Sensors(m) : smc[m].sensors[i].current_reading # None

(* C2 as stated: a check() whose fetch fails at a time later than the next *)
(* self-report time emits the self-report readings and resets the          *)
(* statistics, as a successful sweep does.                                 *)
C2_Original ==
  [][\A m \in Modules :
       (FetchFailed(m)' /\ now' > smc[m].next_self_report) =>
         /\ ret' # <<>>
         /\ smc'[m].poll_failure_count = 0
         /\ smc'[m].poll_success_count = 0
         /\ smc'[m].avg_poll_time = <<>>
         /\ smc'[m].next_self_report = now' + self_report_interval]_vars

(* C2 as amended: a check() whose fetch fails returns before the           *)
(* self-report step.  At a time later than the next self-report time it    *)
(* still emits nothing and resets nothing: the counters and the average    *)
(* keep what they hold (the failure counter one more) and the next         *)
(* self-report time stays where it was.                                    *)
C2_NoSelfReportOnFailure ==
  [][\A m \in Modules :
       (FetchFailed(m)' /\ now' > smc[m].next_self_report) =>
         /\ ret' = <<>>
         /\ smc'[m].next_self_report = smc[m].next_self_report
         /\ smc'[m].poll_failure_count = smc[m].poll_failure_count + 1
         /\ smc'[m].poll_success_count = smc[m].poll_success_count
         /\ smc'[m].avg_poll_time = smc[m].avg_poll_time]_vars

(* A failed fetch with the self-report overdue and a success on the books. *)
C2_Witness ==
  \E m \in Modules :
    /\ FetchFailed(m)
    /\ now > smc[m].next_self_report
    /\ smc[m].poll_success_count > 0
    /\ smc[m].avg_poll_time # <<>>

(* C3: in every reachable state a sensor's next check time is its          *)
(* construction time plus (number of update() calls) times its poll        *)
(* interval: update() advances it by the poll interval from its prior      *)
(* value, never from the current time, and nothing else changes it.        *)
C3_NextCheckDrift ==
  \A m \in Modules : \A i \in Sensors(m) :
    LET s == smc[m].sensors[i] IN
      s.next_check_time = s.ctime + s.nupd * s.poll_interval

(* An update made late: the next check time is already in the past.        *)
C3_Witness ==
  \E m \in Modules : \E i \in Sensors(m) :
    LET s == smc[m].sensors[i] IN
      /\ s.poll_interval > 0
      /\ s.nupd >= 1
      /\ s.next_check_time < now
      /\ last.op \in {"check", "pool"}


----------------------------------------------------------------------------
(* The clock readings and the candidate readings the properties range      *)
(* over.                                                                   *)
Times == 0..(MaxTime + default_interval)
Candidates(name) == {load_from_HTML(name, x) : x \in CandidateTexts}
NA(name) == load_from_HTML(name, "N/A")

(* C4 as stated, for a sensor with poll interval T > 0 and alert threshold *)
(* 0: needs_check() is true before any reading is accepted (read at a time *)
(* after the construction); after an update() performed at time t it is    *)
(* false at every time t+e with e < T, and true at every time at or after  *)
(* t+T.                                                                    *)
C4_Original ==
  [][\A m \in Modules : \A i \in Sensors(m) :
       LET s == smc[m].sensors[i]
           s2 == smc'[m].sensors[i]
           T == s.poll_interval
       IN (T > 0 /\ s.alert_threshold.num = 0) =>
            /\ (s.current_reading = None /\ now > s.ctime)
                 => needs_check(s, now) = "True"
            /\ (CheckedAlone(m)' /\ s2.nupd = s.nupd + 1) =>
                 /\ \A e \in 0..(T - 1) : needs_check(s2, now' + e) # "True"
                 /\ \A u \in Times : u >= now' + T
                                       => needs_check(s2, u) = "True"]_vars

(* C4 as amended: needs_check() is true before any reading is accepted at  *)
(* every time later than the construction time.  An update() performed at  *)
(* time t moves the next check time from n to n+T; after it needs_check()  *)
(* is false at every time up to and including n+T and true at every later  *)
(* time.  check() updates such a sensor only when it is due (t > n), so    *)
(* needs_check() is true at every time at or after t+T, but it is false at *)
(* t+e only while t+e <= n+T.                                              *)
C4_DueAfterUpdate ==
  [][\A m \in Modules : \A i \in Sensors(m) :
       LET s == smc[m].sensors[i]
           s2 == smc'[m].sensors[i]
           T == s.poll_interval
       IN (T > 0 /\ s.alert_threshold.num = 0) =>
            /\ s.current_reading = None =>
                 \A u \in Times : needs_check(s, u) = "True" <=> u > s.ctime
            /\ (CheckedAlone(m)' /\ s2.nupd = s.nupd + 1) =>
                 /\ now' > s.next_check_time
                 /\ s2.next_check_time = s.next_check_time + T
                 /\ \A u \in Times :
                      /\ u <= s2.next_check_time
                           => needs_check(s2, u) # "True"
                      /\ u > s2.next_check_time
                           => needs_check(s2, u) = "True"
                      /\ u >= now' + T => needs_check(s2, u) = "True"]_vars

(* A sensor with T > 0 and threshold 0 whose update came a full interval   *)
(* late: the check() just alerted on its reading and it is still due.      *)
C4_Witness ==
  \E m \in Modules : \E i \in Sensors(m) :
    LET s == smc[m].sensors[i] IN
      /\ s.poll_interval > 0
      /\ s.alert_threshold.num = 0
      /\ CheckedAlone(m)
      /\ ret # <<>>
      /\ ret[1] = s.current_reading
      /\ s.nupd = 1
      /\ now > s.next_check_time

(* C5 as stated: needs_check() is true exactly when the poll interval is   *)
(* zero or the current time is strictly later than the next check time, so *)
(* a sensor with poll interval 0 is due whatever the time.                 *)
C5_Claim ==
  \A m \in Modules : \A i \in Sensors(m) :
    LET s == smc[m].sensors[i] IN
      needs_check(s, now) = "True"
        <=> (s.poll_interval = 0 \/ now > s.next_check_time)

(* C6 as stated: for every configuration, threshold 0 included, the first  *)
(* reading a sensor observes satisfies exceeds_threshold(), and after      *)
(* update() with it get_data_update() returns it.                          *)
C6_Original ==
  \A m \in Modules : \A i \in Sensors(m) :
    LET s == smc[m].sensors[i] IN
      s.current_reading = None =>
        \A c \in Candidates(s.name) :
          /\ exceeds_threshold(s, c) = "True"
          /\ get_data_update(update(s, c)) = c

(* C6 as amended: the first reading a sensor observes satisfies            *)
(* exceeds_threshold() for every configuration whose alert threshold is    *)
(* not 0; with threshold 0 exceeds_threshold() is false for it.  For every *)
(* configuration, threshold 0 included, get_data_update() returns the      *)
(* first reading after update() with it.                                   *)
C6_FirstReading ==
  \A m \in Modules : \A i \in Sensors(m) :
    LET s == smc[m].sensors[i] IN
      /\ s.current_reading = None =>
           \A c \in Candidates(s.name) :
             /\ s.alert_threshold.num # 0 => exceeds_threshold(s, c) = "True"
             /\ s.alert_threshold.num = 0 => exceeds_threshold(s, c) = "False"
             /\ get_data_update(update(s, c)) = c
      /\ s.nupd = 1 =>
           /\ s.current_reading # None
           /\ get_data_update(s) = s.current_reading

(* The first reading of a sensor with threshold 0 was accepted by a        *)
(* check(), which returned it.                                             *)
C6_Witness ==
  \E m \in Modules : \E i \in Sensors(m) :
    LET s == smc[m].sensors[i] IN
      /\ s.alert_threshold.num = 0
      /\ s.nupd = 1
      /\ s.previous_reading = None
      /\ CheckedAlone(m)
      /\ ret = <<s.current_reading>>

(* C7: for a sensor whose alert threshold is 0, exceeds_threshold() is     *)
(* false in every reachable state for every candidate reading, whatever    *)
(* the difference to the current value, with or without a current reading. *)
C7_ZeroThresholdNeverExceeds ==
  \A m \in Modules : \A i \in Sensors(m) :
    LET s == smc[m].sensors[i] IN
      s.alert_threshold.num = 0 =>
        \A c \in Candidates(s.name) : exceeds_threshold(s, c) = "False"

(* A sensor with threshold 0 holding 100 that a second check() has seen.   *)
C7_Witness ==
  \E m \in Modules : \E i \in Sensors(m) :
    LET s == smc[m].sensors[i] IN
      /\ s.alert_threshold.num = 0
      /\ s.current_reading = load_from_HTML(s.name, "100")
      /\ CheckedAlone(m)
      /\ last.fetch[m] = "ok"
      /\ sweeps[m] = 2

(* The sensor holds the current value 100 with alert threshold 0.5.        *)
Holds100AtHalf(s) ==
  /\ s.current_reading # None
  /\ value(s.current_reading) = IntV(1000)
  /\ s.alert_threshold = Threshold("float", 1, 2)

(* C8 as stated: with current value 100 and threshold 0.5, 149 does not    *)
(* exceed, 151 does, 50 does, 49.9 does not.                               *)
C8_Original ==
  \A m \in Modules : \A i \in Sensors(m) :
    LET s == smc[m].sensors[i] IN
      Holds100AtHalf(s) =>
        /\ exceeds_threshold(s, load_from_HTML(s.name, "149")) # "True"
        /\ exceeds_threshold(s, load_from_HTML(s.name, "151")) = "True"
        /\ exceeds_threshold(s, load_from_HTML(s.name, "50")) = "True"
        /\ exceeds_threshold(s, load_from_HTML(s.name, "49.9")) # "True"

(* C8 as amended: with current value 100 and threshold 0.5, 149 does not   *)
(* exceed, 151 does, 50 (exactly on the lower boundary) does not, and 49.9 *)
(* (below it) does.                                                        *)
C8_Boundaries ==
  \A m \in Modules : \A i \in Sensors(m) :
    LET s == smc[m].sensors[i] IN
      Holds100AtHalf(s) =>
        /\ exceeds_threshold(s, load_from_HTML(s.name, "149")) = "None"
        /\ exceeds_threshold(s, load_from_HTML(s.name, "151")) = "True"
        /\ exceeds_threshold(s, load_from_HTML(s.name, "50")) = "None"
        /\ exceeds_threshold(s, load_from_HTML(s.name, "49.9")) = "True"

(* A check() left the sensor holding 100 with threshold 0.5.               *)
C8_Witness ==
  \E m \in Modules : \E i \in Sensors(m) :
    /\ Holds100AtHalf(smc[m].sensors[i])
    /\ last.op = "check"

(* C9 as stated: a candidate whose value is N/A never makes                *)
(* exceeds_threshold() true, in any reachable sensor state.                *)
C9_Original ==
  \A m \in Modules : \A i \in Sensors(m) :
    LET s == smc[m].sensors[i] IN
      exceeds_threshold(s, NA(s.name)) # "True"

(* C9 as amended: a candidate whose value is N/A does not make             *)
(* exceeds_threshold() true when a current reading is set or the threshold *)
(* is 0.  With no current reading yet and a threshold other than 0 it is   *)
(* true for N/A as for any first reading.                                  *)
C9_NotAvailable ==
  \A m \in Modules : \A i \in Sensors(m) :
    LET s == smc[m].sensors[i] IN
      /\ (s.current_reading # None \/ s.alert_threshold.num = 0)
           => exceeds_threshold(s, NA(s.name)) = "False"
      /\ (s.current_reading = None /\ s.alert_threshold.num # 0)
           => exceeds_threshold(s, NA(s.name)) = "True"

(* A sensor with a threshold above 0 holds a number, is not due, and a     *)
(* second check() went by without an update.                               *)
C9_Witness ==
  \E m \in Modules : \E i \in Sensors(m) :
    LET s == smc[m].sensors[i] IN
      /\ s.alert_threshold.num > 0
      /\ s.current_reading # None
      /\ IsNumber(value(s.current_reading))
      /\ CheckedAlone(m)
      /\ last.fetch[m] = "ok"
      /\ sweeps[m] = 2
      /\ s.nupd = 1
      /\ needs_check(s, now) # "True"

(* The raw value is a number, or a text int() or float() accepts.          *)
ReadsAsNumber(r) ==
  r.raw.t \in {"int", "float"} \/ r.raw.s \in IntTexts \cup FloatTexts

(* C10 as stated: after update(candidate), get_data_update() returns       *)
(* nothing when the new value equals the previous one exactly and the      *)
(* current reading otherwise, a difference of type alone (numeric 1, the   *)
(* string "1") being a difference: the typed value fixed at construction   *)
(* is compared.                                                            *)
C10_Original ==
  \A m \in Modules : \A i \in Sensors(m) :
    LET s == smc[m].sensors[i] IN
      s.current_reading # None =>
        \A c \in Candidates(s.name) :
          get_data_update(update(s, c)) =
            IF c.raw = s.current_reading.raw THEN None ELSE c

(* C10 as amended: after update(candidate), get_data_update() returns      *)
(* nothing when value() of the new current reading equals value() of the   *)
(* previous one and the current reading otherwise.  value() converts the   *)
(* stored value again on every call (int(), then float(), else the text),  *)
(* so a difference of type alone is no difference: the string "1" and the  *)
(* number 1 are equal.  Readings with the same stored value are equal;     *)
(* readings with different stored values are equal only when both read as  *)
(* the same number.                                                        *)
C10_ValueChange ==
  \A m \in Modules : \A i \in Sensors(m) :
    LET s == smc[m].sensors[i] IN
      s.current_reading # None =>
        \A c \in Candidates(s.name) :
          LET out == get_data_update(update(s, c))
              cur == s.current_reading
          IN /\ out \in {None, c}
             /\ c.raw = cur.raw => out = None
             /\ (out = None /\ c.raw # cur.raw) =>
                  /\ ReadsAsNumber(c)
                  /\ ReadsAsNumber(cur)
                  /\ value(c).n = value(cur).n
             /\ (cur.raw = Str("1") /\ c.raw = IntV(10)) => out = None
             /\ (cur.raw = Str("100") /\ c.raw = Str("151")) => out = c
             /\ (cur.raw = Str("N/A") /\ c.raw = Str("1")) => out = c

(* A check() updated a sensor from the string "1" to the number 1 and      *)
(* returned no alert.                                                      *)
C10_Witness ==
  \E m \in Modules : \E i \in Sensors(m) :
    LET s == smc[m].sensors[i] IN
      /\ s.previous_reading # None
      /\ s.previous_reading.raw = Str("1")
      /\ s.current_reading.raw = IntV(10)
      /\ s.nupd = 2
      /\ CheckedAlone(m)
      /\ ret = <<>>

----------------------------------------------------------------------------
(* The damped mean of a sequence of durations: the first one, then         *)
(* (mean so far + duration) / number of durations so far.                  *)
RECURSIVE Damped(_)
Damped(durs) ==
  IF durs = <<>> THEN <<>>
  ELSE IF Len(durs) = 1 THEN <<durs[1]>>
  ELSE <<(Damped(SubSeq(durs, 1, Len(durs) - 1))[1] + durs[Len(durs)])
           \div Len(durs)>>

(* C11: the running average is the damped mean of the durations of the     *)
(* successful retrievals since the last reset: the duration itself on the  *)
(* first success, (average + duration) / success count, the count already  *)
(* incremented, on every later one; a failed retrieval does not change     *)
(* it.  After successes of 10, 20 and 30 with no failure it is 15 and not  *)
(* the arithmetic mean 20.                                                 *)
C11_DampedAverage ==
  \A m \in Modules :
    /\ Len(smc[m].durs) = smc[m].poll_success_count
    /\ smc[m].avg_poll_time = Damped(smc[m].durs)
    /\ smc[m].durs = <<10, 20, 30>> =>
         /\ smc[m].avg_poll_time = <<15>>
         /\ smc[m].avg_poll_time # <<20>>

(* Three retrievals succeeded after 10, 20 and 30 and none failed.         *)
C11_Witness ==
  \E m \in Modules :
    /\ smc[m].durs = <<10, 20, 30>>
    /\ smc[m].poll_success_count = 3
    /\ smc[m].poll_failure_count = 0
    /\ last.op = "retrieve"

----------------------------------------------------------------------------
(* The keys of the two self-report readings, and the readings of a         *)
(* sequence that carry them.                                               *)
SelfReportKeys == {"poll_failure_rate", "avg_html_retrieval"}

IsSelfReport(r) == r.key \in SelfReportKeys

Keys(readings) == {readings[i].key : i \in 1..Len(readings)}

(* The step is a check() of module m alone that came to its self-report    *)
(* step: the fetch succeeded and the page was processed to the end.        *)
CameToSelfReportStep(m) ==
  /\ CheckedAlone(m)'
  /\ last'.fetch[m] = "ok"
  /\ exc' = "none"

(* C12: a check() that comes to its self-report step at a time later than  *)
(* the next self-report time emits poll_failure_rate only if an attempt    *)
(* was counted and avg_html_retrieval only if a success was counted, then  *)
(* sets both counters to 0, clears the average and sets the next           *)
(* self-report time to the current time + the self-report interval; at a   *)
(* time not later it resets none of the four fields and emits no           *)
(* self-report reading.                                                    *)
C12_SelfReportStep ==
  [][\A m \in Modules :
       /\ \A f \in 0..1, k \in 0..1 :
            LET counted == [smc[m] EXCEPT !.poll_failure_count = f,
                                          !.poll_success_count = k,
                                          !.avg_poll_time =
                                             IF k = 0 THEN <<>> ELSE <<0>>]
                r == self_report(counted, now).r
            IN /\ Keys(r) \subseteq SelfReportKeys
               /\ "poll_failure_rate" \in Keys(r) <=> f + k > 0
               /\ "avg_html_retrieval" \in Keys(r) <=> k > 0
       /\ CameToSelfReportStep(m) =>
            LET old == smc[m]
                new == smc'[m]
                emitted == Keys(SelectSeq(ret', IsSelfReport))
            IN IF now' > old.next_self_report
                 THEN /\ "poll_failure_rate" \in emitted <=>
                           old.poll_failure_count + old.poll_success_count + 1
                             > 0
                      /\ "avg_html_retrieval" \in emitted <=>
                           old.poll_success_count + 1 > 0
                      /\ new.poll_success_count = 0
                      /\ new.poll_failure_count = 0
                      /\ new.avg_poll_time = <<>>
                      /\ new.next_self_report = now' + self_report_interval
                 ELSE /\ emitted = {}
                      /\ new.poll_success_count = old.poll_success_count + 1
                      /\ new.poll_failure_count = old.poll_failure_count
                      /\ new.avg_poll_time # <<>>
                      /\ new.next_self_report = old.next_self_report
    ]_vars

(* The second check() of a module came to its self-report step later than  *)
(* the next self-report time: it returned both self-report readings and    *)
(* started a new interval.                                                 *)
C12_Witness ==
  \E m \in Modules :
    /\ CheckedAlone(m)
    /\ last.fetch[m] = "ok"
    /\ exc = "none"
    /\ sweeps[m] = 2
    /\ Keys(SelectSeq(ret, IsSelfReport)) = SelfReportKeys
    /\ smc[m].next_self_report = now + self_report_interval
    /\ smc[m].poll_success_count = 0

----------------------------------------------------------------------------
(* C13: the poll_failure_rate a check() emits is the failure count         *)
(* divided by the sum of the failure and the success count, as a           *)
(* fraction: 0.25 for 1 failure and 3 successes, 0.5 for 1 failure and 1   *)
(* success.  The counts are those at the self-report step, the success of  *)
(* the reporting check() included; the value is in tenths.                 *)
C13_Claim ==
  [][\A m \in Modules :
       CameToSelfReportStep(m) =>
         LET failures == smc[m].poll_failure_count
             total == smc[m].poll_failure_count
                        + smc[m].poll_success_count + 1
         IN \A i \in 1..Len(ret') :
              ret'[i].key = "poll_failure_rate" =>
                value(ret'[i]).n * total = failures * 10
    ]_vars

----------------------------------------------------------------------------
(* C15: no check() and no sweep ends in an exception, whatever the fetch   *)
(* gave (connection error, read timeout, a page without tables or with     *)
(* malformed rows) and whatever the sensors hold: check() returns a        *)
(* sequence, possibly empty, and the sweep goes on to the remaining        *)
(* modules.                                                                *)
C15_Claim ==
  /\ exc = "none"
  /\ last.op = "pool" => DOMAIN last.fetch = Modules

----------------------------------------------------------------------------
(* C18: for a sensor with a numeric current value c and a threshold a > 0  *)
(* and a numeric candidate v, exceeds_threshold(v) is true exactly when    *)
(* v > c(1 + a) or v < c(1 - a), both strict, and false otherwise.         *)
C18_Claim ==
  \A m \in Modules : \A i \in Sensors(m) :
    LET s == smc[m].sensors[i]
        a == s.alert_threshold
    IN (s.current_reading # None /\ IsNumber(value(s.current_reading))
        /\ a.num > 0) =>
         \A r \in Candidates(s.name) :
           IsNumber(value(r)) =>
             LET c == value(s.current_reading).n
                 v == value(r).n
                 result == exceeds_threshold(s, r)
             IN /\ result \in {"True", "False", "None"}
                /\ result = "True" <=>
                     \/ v * a.den > c * (a.den + a.num)
                     \/ v * a.den < c * (a.den - a.num)

----------------------------------------------------------------------------
(* C19: whenever exceeds_threshold() comes to its comparison in a check(), *)
(* that is for a sensor that is not due, the candidate's value and the     *)
(* current value are both numbers, whatever the sweeps before it made the  *)
(* sensor accept.                                                          *)
C19_Claim ==
  \A m \in Modules : \A i \in Sensors(m) :
    LET s == smc[m].sensors[i] IN
      \A r \in Candidates(s.name) :
        (needs_check(s, now) # "True" /\ ReachesComparison(s, r)) =>
          /\ IsNumber(value(r))
          /\ IsNumber(value(s.current_reading))

----------------------------------------------------------------------------
(* The inputs of a check() of module m whose fetch succeeds with a page    *)
(* that has its tables.                                                    *)
Snapshots(m) == {inp \in Inputs(smc[m]) : inp.fetch = "ok" /\ inp.page.tables}

(* C16: in a check() whose fetch succeeds, a sensor whose key is missing   *)
(* from the readings of the page (its row absent or malformed) is skipped  *)
(* with no error, its current reading, previous reading and next check     *)
(* time unchanged, and every other sensor of the module whose key is       *)
(* present is processed in that check(): updated when it is due or the     *)
(* reading exceeds its threshold, left alone otherwise.                    *)
C16_Claim ==
  \A m \in Modules : \A inp \in Snapshots(m) :
    LET readings == sensorReadings(inp.page)
        t == now + inp.dur
        c == check(smc[m], inp, now)
        missing == {i \in Sensors(m) :
                      smc[m].sensors[i].name \notin DOMAIN readings}
    IN missing # {} =>
         /\ c.exc = "none"
         /\ \A i \in missing : c.smc.sensors[i] = smc[m].sensors[i]
         /\ \A j \in Sensors(m) \ missing :
              LET s == smc[m].sensors[j]
                  r == readings[s.name]
              IN c.smc.sensors[j] =
                   IF \/ needs_check(s, t) = "True"
                      \/ exceeds_threshold(s, r) = "True"
                     THEN update(s, r)
                     ELSE s

----------------------------------------------------------------------------
(* The place of the sensor with a given key in the sensor list of module   *)
(* m.                                                                      *)
SensorIndex(m, key) ==
  CHOOSE i \in Sensors(m) : smc[m].sensors[i].name = key

(* C17: in the sequence one check() returns, every self-report reading     *)
(* (poll_failure_rate, avg_html_retrieval) comes after every sensor        *)
(* alert, and the sensor alerts are in the order of the module's sensor    *)
(* list.                                                                   *)
C17_AlertsThenSelfReport ==
  \A m \in Modules :
    CheckedAlone(m) =>
      \A i \in 1..Len(ret) : \A j \in 1..Len(ret) :
        i < j =>
          /\ IsSelfReport(ret[i]) => IsSelfReport(ret[j])
          /\ (~IsSelfReport(ret[i]) /\ ~IsSelfReport(ret[j])) =>
               SensorIndex(m, ret[i].key) < SensorIndex(m, ret[j].key)

(* A check() returned the alerts of both sensors and both self-report      *)
(* readings.                                                               *)
C17_Witness ==
  \E m \in Modules :
    /\ CheckedAlone(m)
    /\ Len(ret) = 4
    /\ Keys(SubSeq(ret, 1, 2)) = SensorNames(smc[m])
    /\ Keys(SubSeq(ret, 3, 4)) = SelfReportKeys

----------------------------------------------------------------------------
(* The checks of modules a and b with inputs ia and ib, one after the      *)
(* other from the current state, leave the same two modules and return    *)
(* the same readings in either order.                                      *)
SameInEitherOrder(a, ia, b, ib) ==
  LET a1 == check(smc[a], ia, now)
      b1 == check(smc[b], ib, a1.t)
      b2 == check(smc[b], ib, now)
      a2 == check(smc[a], ia, b2.t)
  IN /\ a1.smc = a2.smc
     /\ b1.smc = b2.smc
     /\ a1.out = a2.out
     /\ b1.out = b2.out
     /\ a1.exc = a2.exc
     /\ b1.exc = b2.exc

(* C20 as stated: a check() of one module leaves every other module as it *)
(* was, and the module checks of one sweep leave the same final state and  *)
(* return the same readings in every order.                                *)
C20_Original ==
  \A a \in Modules : \A b \in Modules \ {a} :
    \A ia \in Inputs(smc[a]) : \A ib \in Inputs(smc[b]) :
      SameInEitherOrder(a, ia, b, ib)

(* C20 as amended: a check() of one module leaves the record of every      *)
(* other module (success counter, failure counter, average poll duration,  *)
(* next self-report time, sensors with their schedules) as it was.  Each   *)
(* check() reads the clock itself, so what it leaves and returns depends   *)
(* on the time at which it runs, and with that on the order of the checks. *)
C20_OwnStateOnly ==
  [][\A m \in Modules :
       m \notin DOMAIN last'.fetch => smc'[m] = smc[m]]_vars

(* A module was checked on its own after the other one had been checked    *)
(* and had accepted a reading.                                             *)
C20_Witness ==
  \E a \in Modules : \E b \in Modules \ {a} :
    /\ CheckedAlone(a)
    /\ last.fetch[a] = "ok"
    /\ smc[a].sensors[1].nupd = 1
    /\ smc[b].sensors[1].nupd = 1
    /\ smc[b].poll_success_count = 1

----------------------------------------------------------------------------
(* What the network gives the modules in one sweep.                        *)
PoolInputs ==
  {inps \in [Modules -> UNION {Inputs(smc[m]) : m \in Modules}] :
     \A m \in Modules : inps[m] \in Inputs(smc[m])}

(* The results of check() of module i and of every module after it, each   *)
(* started when the one before it ended, one after the other.              *)
RECURSIVE Concatenation(_, _, _)
Concatenation(inps, t, i) ==
  IF i > Len(smc) THEN <<>>
  ELSE LET c == check(smc[i], inps[i], t)
       IN c.out \o Concatenation(inps, c.t, i + 1)

(* C14: a sweep calls check() of every module exactly once, in the order   *)
(* of the pool, and returns the concatenation of what they return in that  *)
(* order, a module whose fetch fails contributing nothing: with one        *)
(* failing module and one succeeding module the result is what the         *)
(* succeeding module returns.                                              *)
C14_Claim ==
  [][last'.op = "pool" =>
       /\ DOMAIN last'.fetch = Modules
       /\ \A m \in Modules : sweeps'[m] = sweeps[m] + 1
       /\ exc' = "none"
       /\ \E inps \in PoolInputs :
            /\ \A m \in Modules : inps[m].fetch = last'.fetch[m]
            /\ ret' = Concatenation(inps, now, 1)
    ]_vars

----------------------------------------------------------------------------
(* C24: in every reachable state of a module the average poll duration is  *)
(* empty exactly when the success counter is 0, and an avg_html_retrieval  *)
(* reading a check() returned carries a number: the average the            *)
(* self-report read was defined.                                           *)
C24_AverageIffSuccess ==
  /\ \A m \in Modules :
       smc[m].avg_poll_time = <<>> <=> smc[m].poll_success_count = 0
  /\ \A i \in 1..Len(ret) :
       ret[i].key = "avg_html_retrieval" => ret[i].raw.t = "float"

(* The first check() of a module returned avg_html_retrieval and reset the *)
(* counter and the average.                                                *)
C24_Witness ==
  \E m \in Modules :
    /\ CheckedAlone(m)
    /\ sweeps[m] = 1
    /\ "avg_html_retrieval" \in Keys(ret)
    /\ smc[m].poll_success_count = 0
    /\ smc[m].avg_poll_time = <<>>

----------------------------------------------------------------------------
(* C21: an alert a check() or a sweep returns for a sensor never carries   *)
(* the value of the alert last returned for that sensor.                   *)
C21_Claim ==
  [][last'.op \in {"check", "pool"} =>
       \A m \in DOMAIN last'.fetch : \A i \in Sensors(m) :
         LET s == smc[m].sensors[i] IN
           s.alerted # None =>
             \A k \in 1..Len(ret') :
               ret'[k].key = s.name =>
                 PyNotEqual(value(ret'[k]), value(s.alerted))
    ]_vars

----------------------------------------------------------------------------
(* Sensor j of module m has a reading in the page of inp, is not due when  *)
(* that page has been fetched, and the reading does not exceed its         *)
(* threshold.                                                              *)
PresentNotWorthy(m, inp, j) ==
  LET s == smc[m].sensors[j]
      readings == sensorReadings(inp.page)
  IN /\ s.name \in DOMAIN readings
     /\ needs_check(s, now + inp.dur) # "True"
     /\ exceeds_threshold(s, readings[s.name]) \in {"False", "None"}

(* C22: in a check() whose fetch succeeds, a sensor that has a reading in  *)
(* the page and is neither due nor over its threshold is not updated: its  *)
(* current reading, previous reading and next check time stay as they      *)
(* were and no alert is returned for it.                                   *)
C22_NotWorthyNotUpdated ==
  \A m \in Modules : \A inp \in Snapshots(m) :
    \A j \in Sensors(m) :
      PresentNotWorthy(m, inp, j) =>
        LET c == check(smc[m], inp, now) IN
          /\ c.smc.sensors[j] = smc[m].sensors[j]
          /\ smc[m].sensors[j].name \notin Keys(c.out)

(* A module was checked, and for some page it can get now one of its       *)
(* sensors holds a reading, has a different reading in that page and is    *)
(* neither due nor over its threshold, while another sensor of the module  *)
(* is updated from the same page.                                          *)
C22_Witness ==
  \E m \in Modules : \E inp \in Snapshots(m) :
    \E j \in Sensors(m) : \E k \in Sensors(m) \ {j} :
      /\ CheckedAlone(m)
      /\ sweeps[m] < MaxSweeps
      /\ now + inp.dur <= MaxTime
      /\ PresentNotWorthy(m, inp, j)
      /\ smc[m].sensors[j].current_reading # None
      /\ smc[m].sensors[j].alert_threshold.num # 0
      /\ sensorReadings(inp.page)[smc[m].sensors[j].name].raw
           # smc[m].sensors[j].current_reading.raw
      /\ check(smc[m], inp, now).smc.sensors[k].nupd
           = smc[m].sensors[k].nupd + 1

----------------------------------------------------------------------------
(* The sensor the steady fetches report on: the first sensor of the one     *)
(* module of SpecSteady.                                                   *)
Steady == smc[1].sensors[1]

====
